---- MODULE Spec2Model ----
(***************************************************************************)
(* Model of helmbase (src/base.go, the current revision at lines 696-1336): *)
(* InitDefaults, which reconciles a ReleaseTypeArgs with a default chart,   *)
(* a default repository and a strongly typed payload, and Construct, the    *)
(* pipeline that registers a Chart component and creates its Helm Release.  *)
(*                                                                          *)
(* Go values are represented as follows.                                    *)
(*   - a nil pointer / nil interface is Nil (the empty tuple), a set one is *)
(*     Some(x) (a one-element tuple);                                       *)
(*   - a map[string]interface{} is [isNil, m]: Go tells a nil map from an   *)
(*     empty one, m is a function from keys to values;                      *)
(*   - an interface{} value held in such a map is a record                  *)
(*     [kind, s, m, fs]: a scalar s, a nested map m (keys to scalars) or a  *)
(*     struct with the field list fs.                                       *)
(***************************************************************************)
EXTENDS Naturals, Sequences, FiniteSets, TLC

VARIABLES
    args,      \* the *ReleaseTypeArgs a direct InitDefaults call works on
    chart,     \* InitDefaults' chart parameter
    repo,      \* InitDefaults' repo parameter
    values,    \* InitDefaults' values parameter (the strongly typed payload)
    before,    \* args as it was when the latest InitDefaults call started
    status,    \* "idle", "returned" or "panicked": how the latest call ended
    calls,     \* number of InitDefaults calls made on args so far
    con,       \* per Construct call: its arguments, locals and position
    ctx        \* the *pulumi.Context: the registration requests it received

dvars == <<args, chart, repo, values, before, status, calls>>

cvars == <<con, ctx>>

vars == <<args, chart, repo, values, before, status, calls, con, ctx>>

----------------------------------------------------------------------------
(* Bounds of the model. *)

\* Largest number of fields of a struct payload.
MaxFields == 2

\* Largest number of successive InitDefaults calls on the same args.
MaxCalls == 2

----------------------------------------------------------------------------
(* Constants of the program. *)

FieldHelmStatusOutput == "status"

FieldHelmOptionsInput == "helmOptions"

----------------------------------------------------------------------------
(* Go values. *)

Nil == <<>>

Some(x) == <<x>>

EmptyMap == <<>>

Scalar(s) == [kind |-> "scalar", s |-> s, m |-> EmptyMap, fs |-> <<>>]

MapVal(m) == [kind |-> "map", s |-> "", m |-> m, fs |-> <<>>]

StructVal(fs) == [kind |-> "struct", s |-> "", m |-> EmptyMap, fs |-> fs]

\* make(map[string]interface{})
MakeMap == [isNil |-> FALSE, m |-> EmptyMap]

NilMap == [isNil |-> TRUE, m |-> EmptyMap]

\* SetMapIndex with a bug: a map written over a map is merged into it.
SetMapIndexDeepMerge(m, k, v) ==
    [x \in (DOMAIN m) \cup {k} |->
        IF x # k THEN m[x]
        ELSE IF k \in DOMAIN m /\ m[k].kind = "map" /\ v.kind = "map"
        THEN [v EXCEPT !.m = [y \in (DOMAIN m[k].m) \cup (DOMAIN v.m) |->
                                 IF y \in DOMAIN v.m THEN v.m[y] ELSE m[k].m[y]]]
        ELSE v]

\* SetMapIndex with a bug: an existing key is removed instead of overwritten.
SetMapIndexToggle(m, k, v) ==
    IF k \in DOMAIN m THEN [x \in (DOMAIN m) \ {k} |-> m[x]]
    ELSE [x \in (DOMAIN m) \cup {k} |-> IF x = k THEN v ELSE m[x]]

\* SetMapIndex with a bug: an existing key keeps its old value.
SetMapIndexKeep(m, k, v) ==
    [x \in (DOMAIN m) \cup {k} |-> IF x \in DOMAIN m THEN m[x] ELSE v]

\* reflect.Value.SetMapIndex: m[k] = v
SetMapIndex(m, k, v) == [x \in (DOMAIN m) \cup {k} |-> IF x = k THEN v ELSE m[x]]

\* delete with a bug: nothing is deleted.
DeleteNothing(mv, k) == mv

\* The builtin delete(m, k); deleting from a nil map is a no-op.
Delete(mv, k) ==
    IF mv.isNil THEN mv
    ELSE [mv EXCEPT !.m = [x \in (DOMAIN mv.m) \ {k} |-> mv.m[x]]]

----------------------------------------------------------------------------
(* ReleaseTypeArgs and the payloads InitDefaults is given. *)

\* &ReleaseTypeArgs{}: every field at its Go zero value.
ZeroReleaseTypeArgs ==
    [Atomic |-> Nil, Chart |-> Nil, CleanupOnFail |-> Nil, CreateNamespace |-> Nil,
     DependencyUpdate |-> Nil, Description |-> Nil, Devel |-> Nil,
     DisableCRDHooks |-> Nil, DisableOpenapiValidation |-> Nil,
     DisableWebhooks |-> Nil, ForceUpdate |-> Nil, Keyring |-> Nil, Lint |-> Nil,
     Manifest |-> Nil, MaxHistory |-> Nil, Name |-> Nil, Namespace |-> Nil,
     Postrender |-> Nil, RecreatePods |-> Nil, RenderSubchartNotes |-> Nil,
     Replace |-> Nil,
     RepositoryOpts |-> [CaFile |-> Nil, CertFile |-> Nil, KeyFile |-> Nil,
                         Password |-> Nil, Repo |-> Nil, Username |-> Nil],
     ResetValues |-> Nil, ResourceNames |-> Nil, ReuseValues |-> Nil,
     SkipAwait |-> Nil, SkipCrds |-> Nil, Status |-> Nil, Timeout |-> Nil,
     ValueYamlFiles |-> <<>>, Values |-> NilMap, Verify |-> Nil, Version |-> Nil,
     WaitForJobs |-> Nil]

\* A ReleaseTypeArgs with every field other than Chart, RepositoryOpts.Repo
\* and Values set by the caller.
FilledReleaseTypeArgs ==
    [Atomic |-> Some(TRUE), Chart |-> Nil, CleanupOnFail |-> Some(TRUE),
     CreateNamespace |-> Some(TRUE), DependencyUpdate |-> Some(FALSE),
     Description |-> Some("description"), Devel |-> Some(FALSE),
     DisableCRDHooks |-> Some(TRUE), DisableOpenapiValidation |-> Some(FALSE),
     DisableWebhooks |-> Some(TRUE), ForceUpdate |-> Some(FALSE),
     Keyring |-> Some("keyring"), Lint |-> Some(TRUE),
     Manifest |-> Some("manifest"), MaxHistory |-> Some(3), Name |-> Some("name"),
     Namespace |-> Some("namespace"), Postrender |-> Some("postrender"),
     RecreatePods |-> Some(TRUE), RenderSubchartNotes |-> Some(FALSE),
     Replace |-> Some(TRUE),
     RepositoryOpts |-> [CaFile |-> Some("ca"), CertFile |-> Some("cert"),
                         KeyFile |-> Some("key"), Password |-> Some("password"),
                         Repo |-> Nil, Username |-> Some("username")],
     ResetValues |-> Some(FALSE), ResourceNames |-> Some("resourceNames"),
     ReuseValues |-> Some(TRUE), SkipAwait |-> Some(FALSE), SkipCrds |-> Some(TRUE),
     Status |-> Some("deployed"), Timeout |-> Some(30),
     ValueYamlFiles |-> <<"values.yaml", "more.yaml">>, Values |-> NilMap,
     Verify |-> Some(TRUE), Version |-> Some("1.2.3"), WaitForJobs |-> Some(FALSE)]

\* The args InitDefaults is called on, before Chart, Repo and Values are chosen.
InitialArgs == {ZeroReleaseTypeArgs, FilledReleaseTypeArgs}

\* The payload kinds: an untyped nil, a struct (or a pointer to one), a
\* map[string]interface{} (nil or not), and anything else (an int, a string).
NilPayload == [kind |-> "nil", fs |-> <<>>, mv |-> NilMap]

StructPayload(fs) == [kind |-> "struct", fs |-> fs, mv |-> NilMap]

MapPayload(mv) == [kind |-> "map", fs |-> <<>>, mv |-> mv]

ScalarPayload == [kind |-> "scalar", fs |-> <<>>, mv |-> NilMap]

\* Go names of the fields of a struct payload, by position.
GoNames == <<"F1", "F2", "F3", "F4">>

\* A nested struct value with one tagged field, and what it flattens to.
SubStruct == StructVal(<<[name |-> "Sub", exported |-> TRUE, tag |-> "sub",
                          val |-> Scalar("new")]>>)

SubMapNew == MapVal([sub |-> Scalar("new")])

SubMapOld == MapVal([sub |-> Scalar("old"), keep |-> Scalar("old")])

\* The `pulumi` tags that carry the option "squash", and the name part of a
\* tag (what precedes its first comma).
SquashTags == {"a,squash"}

TagName(tag) == IF tag = "a,squash" THEN "a" ELSE tag

\* The shapes of a payload field: exported or not, its `pulumi` tag ("" when
\* it has none, "-" to exclude it) and its value.  An unexported field is
\* never read, and neither is the value of a field tagged "-": one
\* representative of each is kept.  The last shape is a field the decoder
\* rejects: a non-struct value tagged "squash".
FieldShapes ==
    {[exported |-> TRUE, tag |-> t, val |-> v] :
        t \in {"", "a"}, v \in {Scalar("new"), SubMapNew, SubStruct}}
    \cup {[exported |-> TRUE, tag |-> t, val |-> Scalar("new")] :
        t \in {"-", FieldHelmOptionsInput}}
    \cup {[exported |-> FALSE, tag |-> "a", val |-> Scalar("new")]}
    \cup {[exported |-> TRUE, tag |-> t, val |-> Scalar("new")] : t \in SquashTags}

\* The struct payloads with n fields, the i-th field named GoNames[i].
StructsOfLen(n) ==
    {StructPayload([i \in 1..n |->
                      [name |-> GoNames[i], exported |-> sh[i].exported,
                       tag |-> sh[i].tag, val |-> sh[i].val]]) :
        sh \in [1..n -> FieldShapes]}

StructPayloads == UNION {StructsOfLen(n) : n \in 0..MaxFields}

MapPayloads ==
    {MapPayload(NilMap)}
    \cup {MapPayload([isNil |-> FALSE,
                       m |-> [k \in ks |-> IF k = "a" THEN va ELSE Scalar("new")]]) :
            ks \in SUBSET {"a", FieldHelmOptionsInput}, va \in {Scalar("new"), SubMapNew}}

Payloads == {NilPayload, ScalarPayload} \cup StructPayloads \cup MapPayloads

\* The values maps args starts with: nil, or any choice of an overridable key
\* "a" (a scalar or a nested map), an unrelated key "z" and the reserved key.
InitialValues ==
    {NilMap}
    \cup {[isNil |-> FALSE,
           m |-> [k \in ks |-> IF k = "a" THEN va ELSE Scalar("old")]] :
            ks \in SUBSET {"a", "z", FieldHelmOptionsInput},
            va \in {Scalar("old"), SubMapOld}}

InitialCharts == {Nil, Some(""), Some("X")}

InitialRepos == {Nil, Some("https://user.example.org")}

DefaultCharts == {"mychart"}

DefaultRepos == {"https://charts.example.org"}

----------------------------------------------------------------------------
(* mapstructure's Decoder.Decode of the payload into &args.Values, with     *)
(* TagName "pulumi" (base.go lines 963-972).                                *)

\* decodeMapFromStruct: the fields in declaration order; an unexported field
\* and a field tagged "-" are skipped, the key is the tag's name, or the Go
\* field name when there is none, and a struct value is decoded into a map of
\* its own.  A later field overwrites an earlier one with the same key.  A
\* struct tagged "squash" has its keys written into the enclosing map; any
\* other value tagged "squash" is an error ("cannot squash non-struct type"),
\* which leaves in the map what the fields before it wrote.
RECURSIVE decodeMapFromStruct(_, _)
decodeMapFromStruct(fs, valMap) ==
    IF fs = <<>> THEN [err |-> FALSE, m |-> valMap]
    ELSE LET f == Head(fs)
             squash == f.tag \in SquashTags
             keyName == IF TagName(f.tag) = "" THEN f.name ELSE TagName(f.tag)
             sub == decodeMapFromStruct(f.val.fs, EmptyMap)
         IN  IF ~f.exported \/ TagName(f.tag) = "-"
             THEN decodeMapFromStruct(Tail(fs), valMap)
             ELSE IF f.val.kind = "struct"
             THEN IF sub.err THEN [err |-> TRUE, m |-> valMap]
                  ELSE IF squash
                  THEN decodeMapFromStruct(Tail(fs),
                           [k \in (DOMAIN valMap) \cup (DOMAIN sub.m) |->
                               IF k \in DOMAIN sub.m THEN sub.m[k] ELSE valMap[k]])
                  ELSE decodeMapFromStruct(Tail(fs),
                                           SetMapIndex(valMap, keyName, MapVal(sub.m)))
             ELSE IF squash THEN [err |-> TRUE, m |-> valMap]
             ELSE decodeMapFromStruct(Tail(fs), SetMapIndex(valMap, keyName, f.val))

\* decodeMapFromMap: an empty source makes the target match it (a nil source
\* sets a non-nil target to nil); otherwise every entry is written.
decodeMapFromMap(mv, val) ==
    IF DOMAIN mv.m = {}
    THEN IF mv.isNil THEN NilMap
         ELSE IF val.isNil THEN MakeMap ELSE val
    ELSE [isNil |-> FALSE,
          m |-> [k \in (DOMAIN val.m) \cup (DOMAIN mv.m) |->
                    IF k \in DOMAIN mv.m THEN mv.m[k] ELSE val.m[k]]]

\* Decode with a bug: a struct's unexported fields are decoded as well.
DecodeUnexported(input, val) ==
    CASE input.kind = "nil" -> [err |-> FALSE, val |-> val]
      [] input.kind = "struct" ->
            LET r == decodeMapFromStruct(
                        [i \in DOMAIN input.fs |-> [input.fs[i] EXCEPT !.exported = TRUE]],
                        val.m)
            IN  [err |-> r.err,
                 val |-> IF r.err /\ val.isNil THEN val
                         ELSE [isNil |-> FALSE, m |-> r.m]]
      [] input.kind = "map" -> [err |-> FALSE, val |-> decodeMapFromMap(input.mv, val)]
      [] OTHER -> [err |-> TRUE, val |-> val]

\* Decode(input) with Result = &val: [err, val], the error and what val
\* holds afterwards.  A nil input sets nothing; an input that is neither a
\* struct nor a map is an error ("expected a map, got ...").  A struct that
\* fails to decode has written into the map val refers to, if there is one.
Decode(input, val) ==
    CASE input.kind = "nil" -> [err |-> FALSE, val |-> val]
      [] input.kind = "struct" ->
            LET r == decodeMapFromStruct(input.fs, val.m)
            IN  [err |-> r.err,
                 val |-> IF r.err /\ val.isNil THEN val
                         ELSE [isNil |-> FALSE, m |-> r.m]]
      [] input.kind = "map" -> [err |-> FALSE, val |-> decodeMapFromMap(input.mv, val)]
      [] OTHER -> [err |-> TRUE, val |-> val]

----------------------------------------------------------------------------
(* InitDefaults (base.go lines 942-975), statement by statement. *)

\* pulumi.String(s)
String(s) == Some(s)

\* toStringPtr(p): nil for a nil pointer, else pulumi.StringPtr(*p)
toStringPtr(p) == IF p = Nil THEN Nil ELSE Some(p[1])

\* DefaultChart with a bug: the nil test is missing.
DefaultChartAlways(a, ch) == [a EXCEPT !.Chart = Some(ch)]

\* DefaultChart with a bug: the repo field is tested instead of the chart.
DefaultChartWrongTest(a, ch) ==
    IF a.RepositoryOpts.Repo = Nil THEN [a EXCEPT !.Chart = Some(ch)] ELSE a

\* if args.Chart == nil { args.Chart = pulumi.String(chart) }
DefaultChart(a, ch) ==
    IF a.Chart = Nil THEN [a EXCEPT !.Chart = String(ch)] ELSE a

\* DefaultRepo with a bug: the nil test is missing.
DefaultRepoAlways(a, rp) == [a EXCEPT !.RepositoryOpts.Repo = Some(rp)]

\* DefaultRepo with a bug: a nil Repo is filled by storing fresh
\* RepositoryOpts that hold the repo only.
DefaultRepoWholeOpts(a, rp) ==
    IF a.RepositoryOpts.Repo = Nil
    THEN [a EXCEPT !.RepositoryOpts =
             [CaFile |-> Nil, CertFile |-> Nil, KeyFile |-> Nil, Password |-> Nil,
              Repo |-> toStringPtr(Some(rp)), Username |-> Nil]]
    ELSE a

\* if args.RepositoryOpts.Repo == nil { args.RepositoryOpts.Repo = toStringPtr(&repo) }
DefaultRepo(a, rp) ==
    IF a.RepositoryOpts.Repo = Nil
    THEN [a EXCEPT !.RepositoryOpts.Repo = toStringPtr(Some(rp))]
    ELSE a

\* if args.Values == nil { args.Values = make(map[string]interface{}) }
EnsureValues(a) ==
    IF a.Values.isNil THEN [a EXCEPT !.Values = MakeMap] ELSE a

\* InitDefaults with a bug: the default chart is also written into Values.
InitDefaultsChartInValues(a, ch, rp, vals) ==
    LET a3 == EnsureValues(DefaultRepo(DefaultChart(a, ch), rp))
        d  == Decode(vals, [a3.Values EXCEPT !.m = SetMapIndex(@, "chart", Scalar(ch))])
    IN  IF d.err
        THEN [panicked |-> TRUE, args |-> [a3 EXCEPT !.Values = d.val]]
        ELSE [panicked |-> FALSE,
              args |-> [a3 EXCEPT !.Values = Delete(d.val, FieldHelmOptionsInput)]]

\* The whole call: [panicked, args].  A decode error panics, after the chart,
\* the repo and the values map have been set on args.
InitDefaults(a, ch, rp, vals) ==
    LET a3 == EnsureValues(DefaultRepo(DefaultChart(a, ch), rp))
        d  == Decode(vals, a3.Values)
    IN  IF d.err
        THEN [panicked |-> TRUE, args |-> [a3 EXCEPT !.Values = d.val]]
        ELSE [panicked |-> FALSE,
              args |-> [a3 EXCEPT !.Values = Delete(d.val, FieldHelmOptionsInput)]]

----------------------------------------------------------------------------
(* Direct calls of InitDefaults, as in TestInitDefaults: args, the defaults  *)
(* and the payload are chosen at the start, and InitDefaults is then called  *)
(* on the same args with the same arguments up to MaxCalls times.            *)

InitDefaultsSpecInit ==
    /\ \E a0 \in InitialArgs, c0 \in InitialCharts, r0 \in InitialRepos,
          v0 \in InitialValues :
          args = [a0 EXCEPT !.Chart = c0, !.RepositoryOpts.Repo = r0, !.Values = v0]
    /\ chart \in DefaultCharts
    /\ repo \in DefaultRepos
    /\ values \in Payloads
    /\ before = args
    /\ status = "idle"
    /\ calls = 0
    /\ con = <<>>
    /\ ctx = <<>>

\* InitDefaults(args, chart, repo, values) returns.
CallInitDefaults ==
    /\ status # "panicked"
    /\ calls < MaxCalls
    /\ LET r == InitDefaults(args, chart, repo, values)
       IN  /\ ~r.panicked
           /\ args' = r.args
    /\ before' = args
    /\ status' = "returned"
    /\ calls' = calls + 1
    /\ UNCHANGED <<chart, repo, values, con, ctx>>

\* InitDefaults(args, chart, repo, values) panics on a decode error.
PanicInitDefaults ==
    /\ status # "panicked"
    /\ calls < MaxCalls
    /\ LET r == InitDefaults(args, chart, repo, values)
       IN  /\ r.panicked
           /\ args' = r.args
    /\ before' = args
    /\ status' = "panicked"
    /\ calls' = calls + 1
    /\ UNCHANGED <<chart, repo, values, con, ctx>>

DefaultsNext == CallInitDefaults \/ PanicInitDefaults

DefaultsSpec == InitDefaultsSpecInit /\ [][DefaultsNext]_vars

----------------------------------------------------------------------------
(* What the claims about InitDefaults speak of, stated on the payload       *)
(* itself rather than through the decoder.                                  *)

\* The latest InitDefaults call returned normally.
Returned == status = "returned"

\* The field carries a canonical name: a `pulumi` tag that names it.
Tagged(f) == f.tag \notin {"", "-"}

\* The decoder reads the field: it is exported and not tagged "-".
Visible(f) == f.exported /\ f.tag # "-"

\* The key the decoder files a visible field under.
KeyOf(f) == IF f.tag = "" THEN f.name ELSE f.tag

\* The keys a field list is decoded to.
KeysOf(fs) == {KeyOf(fs[i]) : i \in {j \in DOMAIN fs : Visible(fs[j])}}

\* The last visible field of fs filed under key k.
LastOf(fs, k) ==
    fs[CHOOSE i \in DOMAIN fs :
          /\ Visible(fs[i]) /\ KeyOf(fs[i]) = k
          /\ \A j \in DOMAIN fs : (j > i /\ Visible(fs[j])) => KeyOf(fs[j]) # k]

\* A field value as it appears in a values map: a struct value appears as
\* the map of its own visible fields.
FlatValue(v) ==
    IF v.kind = "struct"
    THEN MapVal([k \in KeysOf(v.fs) |-> LastOf(v.fs, k).val])
    ELSE v

\* The keys the payload contributes, and the value it contributes under k.
PayloadKeys(p) ==
    CASE p.kind = "struct" -> KeysOf(p.fs)
      [] p.kind = "map" -> DOMAIN p.mv.m
      [] OTHER -> {}

PayloadValue(p, k) ==
    IF p.kind = "struct" THEN FlatValue(LastOf(p.fs, k).val) ELSE p.mv.m[k]

\* The canonical names of the payload's fields.
CanonicalNames(p) ==
    IF p.kind = "struct"
    THEN {p.fs[i].tag : i \in {j \in DOMAIN p.fs : Tagged(p.fs[j])}}
    ELSE PayloadKeys(p)

----------------------------------------------------------------------------
(* Claims about InitDefaults, checked under DefaultsSpec. *)

\* C1: a chart that is already set is never overwritten: when args.Chart was
\* set before a call, it has the same value after the call.
C1_ChartNotOverwritten ==
    (calls > 0 /\ before.Chart # Nil) => args.Chart = before.Chart

C1_Witness ==
    /\ Returned /\ calls = 1
    /\ before.Chart = Some("X") /\ args.Chart = Some("X") /\ chart # "X"

\* C2: a nil chart is filled: when args.Chart was nil before a call, it is
\* set to the default chart name passed in after the call.
C2_ChartDefaultFill ==
    (calls > 0 /\ before.Chart = Nil) => args.Chart = Some(chart)

C2_Witness ==
    /\ Returned /\ calls = 1
    /\ before.Chart = Nil /\ before.RepositoryOpts.Repo # Nil
    /\ args.Chart = Some("mychart")

\* C3: after a call RepositoryOpts.Repo is the value it had before when that
\* was set, and the default repo URL passed in when it was nil.
C3_RepoDefault ==
    calls > 0 =>
        args.RepositoryOpts.Repo =
            IF before.RepositoryOpts.Repo # Nil
            THEN before.RepositoryOpts.Repo
            ELSE Some(repo)

C3_Witness ==
    /\ Returned /\ calls = 1
    /\ before.RepositoryOpts.Repo = Nil
    /\ args.RepositoryOpts.Repo = Some("https://charts.example.org")

\* C4 as claimed: after a call that returns, every field of a struct payload
\* with a canonical name k other than the reserved key has args.Values[k]
\* present and equal to the field's value.
C4_Original ==
    (Returned /\ values.kind = "struct") =>
        \A i \in DOMAIN values.fs :
            LET f == values.fs[i]
            IN  (Tagged(f) /\ f.tag # FieldHelmOptionsInput) =>
                    /\ f.tag \in DOMAIN args.Values.m
                    /\ args.Values.m[f.tag] = f.val

\* C4 as amended: after a call that returns, every key k other than the
\* reserved key under which the payload has an exported field not tagged "-"
\* is present in args.Values, with the value of the last such field (a struct
\* value as the map of its fields), whatever args.Values held under k before.
C4_MergePrecedence ==
    (Returned /\ values.kind = "struct") =>
        \A k \in PayloadKeys(values) \ {FieldHelmOptionsInput} :
            /\ k \in DOMAIN args.Values.m
            /\ args.Values.m[k] = PayloadValue(values, k)

C4_Witness ==
    /\ Returned /\ calls = 1 /\ values.kind = "struct"
    /\ "a" \in DOMAIN before.Values.m
    /\ "a" \in PayloadKeys(values)
    /\ before.Values.m["a"] # PayloadValue(values, "a")
    /\ args.Values.m["a"] = PayloadValue(values, "a")

\* C5 as claimed: every key of args.Values before a call that is neither a
\* canonical name of a payload field nor the reserved key is still present
\* after the call, with the same value.
C5_UnrelatedKeysPreserved ==
    Returned =>
        \A k \in DOMAIN before.Values.m :
            (k \notin CanonicalNames(values) /\ k # FieldHelmOptionsInput) =>
                /\ k \in DOMAIN args.Values.m
                /\ args.Values.m[k] = before.Values.m[k]

\* C6: after every call that returns, the reserved key "helmOptions" is
\* absent from args.Values.
C6_ReservedKeyAbsent ==
    Returned => FieldHelmOptionsInput \notin DOMAIN args.Values.m

C6_Witness ==
    /\ Returned /\ calls = 1
    /\ FieldHelmOptionsInput \in DOMAIN before.Values.m
    /\ FieldHelmOptionsInput \in PayloadKeys(values)
    /\ FieldHelmOptionsInput \notin DOMAIN args.Values.m

\* C7: a second call with the same arguments changes nothing: after it,
\* args.Values, args.Chart and args.RepositoryOpts.Repo are what the first
\* call left.
C7_Idempotent ==
    (Returned /\ calls >= 2) =>
        /\ args.Values = before.Values
        /\ args.Chart = before.Chart
        /\ args.RepositoryOpts.Repo = before.RepositoryOpts.Repo

C7_Witness ==
    /\ Returned /\ calls = 2
    /\ "a" \in PayloadKeys(values)
    /\ DOMAIN args.Values.m = {"a", "z"}
    /\ args.Values = before.Values

\* C8 as claimed: when args.Values is nil or empty before a call, after it
\* args.Values is exactly the map of the payload's fields keyed by canonical
\* name, minus the reserved key.
C8_Original ==
    (Returned /\ DOMAIN before.Values.m = {} /\ values.kind = "struct") =>
        /\ DOMAIN args.Values.m = CanonicalNames(values) \ {FieldHelmOptionsInput}
        /\ \A i \in DOMAIN values.fs :
              LET f == values.fs[i]
              IN  (Tagged(f) /\ f.tag # FieldHelmOptionsInput) =>
                      args.Values.m[f.tag] = f.val

\* C8 as amended: when args.Values is nil or empty before a call, after it
\* args.Values holds exactly the keys the payload is decoded to (the tag of
\* each exported field not tagged "-", its Go name when it has no tag), minus
\* the reserved key, each with the value of the last field under that key;
\* the default chart name and repo URL are not inserted.
C8_ExactOnEmpty ==
    (Returned /\ DOMAIN before.Values.m = {}) =>
        args.Values.m =
            [k \in PayloadKeys(values) \ {FieldHelmOptionsInput} |->
                PayloadValue(values, k)]

C8_Witness ==
    /\ Returned /\ calls = 1 /\ before.Values.isNil
    /\ values.kind = "struct" /\ Len(values.fs) = 2
    /\ Tagged(values.fs[1]) /\ Visible(values.fs[1])
    /\ DOMAIN args.Values.m = {"a"}
    /\ args.Values.m["a"] = Scalar("new")

----------------------------------------------------------------------------
(* Construct (base.go lines 898-939).                                       *)
(*                                                                          *)
(* A call is con[p] = [pc, typ, name, opts, c, args, given, inputs, rel,    *)
(* ret, trace]: pc names the statement the call executes next; c is the     *)
(* Chart handle with the statuses SetOutputs was given; args is the typed   *)
(* input, a struct with the field list fs whose field of value RelPtr is    *)
(* the one R() points to, and rel the *ReleaseTypeArgs that field holds;    *)
(* given is the typed input as it was passed; inputs is the raw input bag;  *)
(* rel is the Release NewRelease returned, ret the pair Construct returned  *)
(* and trace the statements executed so far.                                *)

\* The identifiers of the Construct calls.
Calls == {"c1", "c2"}

\* The value of the typed input's field that holds the *ReleaseTypeArgs.
RelPtr == [kind |-> "relptr", s |-> "", m |-> EmptyMap, fs |-> <<>>]

\* The statements of Construct, in program order.
Pipeline ==
    <<"TypeCheck", "CopyTo", "RegisterComponentResource", "R", "InitDefaults",
      "NewRelease", "SetOutputs", "RegisterResourceOutputs", "NewConstructResult">>

\* toAssetOrArchiveArray with the loop that is commented out: every element
\* is appended to the result.
toAssetOrArchiveArrayCopy(a) == a

\* toAssetOrArchiveArray: the loop is commented out, a nil array is returned.
toAssetOrArchiveArray(a) == <<>>

\* pulumi.ToMap: a fresh, non-nil map with the same entries.
ToMap(mv) == [isNil |-> FALSE, m |-> mv.m]

\* To: the field-by-field projection onto helmv3.ReleaseArgs.
To(a) ==
    [Atomic |-> a.Atomic, Chart |-> a.Chart, CleanupOnFail |-> a.CleanupOnFail,
     CreateNamespace |-> a.CreateNamespace, DependencyUpdate |-> a.DependencyUpdate,
     Description |-> a.Description, Devel |-> a.Devel,
     DisableCRDHooks |-> a.DisableCRDHooks,
     DisableOpenapiValidation |-> a.DisableOpenapiValidation,
     DisableWebhooks |-> a.DisableWebhooks, ForceUpdate |-> a.ForceUpdate,
     Keyring |-> a.Keyring, Lint |-> a.Lint, Manifest |-> a.Manifest,
     MaxHistory |-> a.MaxHistory, Name |-> a.Name, Namespace |-> a.Namespace,
     Postrender |-> a.Postrender, RecreatePods |-> a.RecreatePods,
     RenderSubchartNotes |-> a.RenderSubchartNotes, Replace |-> a.Replace,
     RepositoryOpts |-> a.RepositoryOpts, ResetValues |-> a.ResetValues,
     ResourceNames |-> a.ResourceNames, ReuseValues |-> a.ReuseValues,
     SkipAwait |-> a.SkipAwait, SkipCrds |-> a.SkipCrds, Timeout |-> a.Timeout,
     ValueYamlFiles |-> toAssetOrArchiveArray(a.ValueYamlFiles),
     Values |-> ToMap(a.Values), Verify |-> a.Verify, Version |-> a.Version,
     WaitForJobs |-> a.WaitForJobs]

\* A request made of the context: which call made it, the operation, the
\* name and type token given, the arguments or outputs, the parent, and
\* whether it succeeded.
Request(p, op, nm, ty, payload, parent, ok) ==
    [by |-> p, op |-> op, name |-> nm, typ |-> ty, payload |-> payload,
     parent |-> parent, ok |-> ok]

\* The requests call p made for operation op.
Requests(p, op) == SelectSeq(ctx, LAMBDA r : r.by = p /\ r.op = op)

\* return res, err
Return(k, res, err) ==
    [k EXCEPT !.pc = "returned", !.ret = [result |-> res, err |-> err]]

\* The statement st has been executed.
Traced(k, st) == [k EXCEPT !.trace = Append(@, st)]

\* TypeCheck with a bug: the mismatch is detected but the call goes on.
TypeCheckNoReturn(p) ==
    /\ con[p].pc = "TypeCheck"
    /\ con' = [con EXCEPT ![p] = [Traced(con[p], "TypeCheck") EXCEPT !.pc = "CopyTo"]]
    /\ UNCHANGED <<ctx, dvars>>

\* if et := c.Type(); typ != et { return nil, fmt.Errorf(...) }
TypeCheck(p) ==
    /\ con[p].pc = "TypeCheck"
    /\ LET k == Traced(con[p], "TypeCheck")
       IN  con' = [con EXCEPT ![p] =
                IF k.typ # k.c.Type
                THEN Return(k, Nil, Some("unknown resource type"))
                ELSE [k EXCEPT !.pc = "CopyTo"]]
    /\ UNCHANGED <<ctx, dvars>>


\* ConstructInputs.CopyTo with the bag's keys visited in the given order: an
\* entry is copied onto every settable (exported) field whose tag is its key;
\* an entry no field takes is ignored; the first entry that cannot be
\* converted ends the copy with an error, the fields set so far staying set.
RECURSIVE CopyTo(_, _, _)
CopyTo(a, bag, order) ==
    IF order = <<>> THEN [err |-> FALSE, args |-> a]
    ELSE LET k == Head(order)
             e == bag[k]
             hits == {i \in DOMAIN a.fs : a.fs[i].exported /\ a.fs[i].tag = k}
             set == [a EXCEPT
                       !.fs = [i \in DOMAIN a.fs |->
                                 IF i \in hits /\ a.fs[i].val # RelPtr
                                 THEN [a.fs[i] EXCEPT !.val = e.val]
                                 ELSE a.fs[i]],
                       !.rel = IF \E i \in hits : a.fs[i].val = RelPtr
                               THEN Some(e.rel) ELSE a.rel]
         IN  IF hits = {} THEN CopyTo(a, bag, Tail(order))
             ELSE IF ~e.ok THEN [err |-> TRUE, args |-> a]
             ELSE CopyTo(set, bag, Tail(order))

\* The orders in which a Go map with the key set ks may be ranged over.
Orders(ks) ==
    {o \in [1..Cardinality(ks) -> ks] : \A i, j \in DOMAIN o : i # j => o[i] # o[j]}

\* CopyInputs with a bug: the copy's error is dropped and the call goes on.
CopyInputsIgnoreErr(p) ==
    /\ con[p].pc = "CopyTo"
    /\ \E order \in Orders(DOMAIN con[p].inputs) :
          LET k == Traced(con[p], "CopyTo")
              r == CopyTo(k.args, k.inputs, order)
          IN  con' = [con EXCEPT ![p] =
                   [k EXCEPT !.args = r.args, !.pc = "RegisterComponentResource"]]
    /\ UNCHANGED <<ctx, dvars>>

\* if err := inputs.CopyTo(args); err != nil { return nil, "setting args: ..." }
CopyInputs(p) ==
    /\ con[p].pc = "CopyTo"
    /\ \E order \in Orders(DOMAIN con[p].inputs) :
          LET k == Traced(con[p], "CopyTo")
              r == CopyTo(k.args, k.inputs, order)
              h == [k EXCEPT !.args = r.args]
          IN  con' = [con EXCEPT ![p] =
                   IF r.err THEN Return(h, Nil, Some("setting args"))
                   ELSE [h EXCEPT !.pc = "RegisterComponentResource"]]
    /\ UNCHANGED <<ctx, dvars>>

\* RegisterComponentResource with a bug: a failed registration is not returned.
RegisterComponentResourceIgnoreErr(p) ==
    /\ con[p].pc = "RegisterComponentResource"
    /\ UNCHANGED dvars
    /\ \E ok \in BOOLEAN :
          LET k == Traced(con[p], "RegisterComponentResource")
          IN  /\ ctx' = Append(ctx, Request(p, "RegisterComponentResource", k.name,
                                            k.typ, k.opts, Nil, ok))
              /\ con' = [con EXCEPT ![p] = [k EXCEPT !.pc = "R"]]

\* if err := ctx.RegisterComponentResource(typ, name, c, opts); err != nil { return nil, err }
RegisterComponentResource(p) ==
    /\ con[p].pc = "RegisterComponentResource"
    /\ UNCHANGED dvars
    /\ \E ok \in BOOLEAN :
          LET k == Traced(con[p], "RegisterComponentResource")
          IN  /\ ctx' = Append(ctx, Request(p, "RegisterComponentResource", k.name,
                                            k.typ, k.opts, Nil, ok))
              /\ con' = [con EXCEPT ![p] =
                    IF ok THEN [k EXCEPT !.pc = "R"]
                    ELSE Return(k, Nil, Some("registering component"))]

\* BootstrapRelArgs with a bug: the call goes on to the child creation
\* without defaulting.
BootstrapRelArgsSkipDefaults(p) ==
    /\ con[p].pc = "R"
    /\ LET k == Traced(con[p], "R")
       IN  con' = [con EXCEPT ![p] =
                [k EXCEPT !.pc = "NewRelease",
                          !.args.rel = IF @ = Nil THEN Some(ZeroReleaseTypeArgs) ELSE @]]
    /\ UNCHANGED <<ctx, dvars>>

\* BootstrapRelArgs with a bug: a nil pointer is replaced by release args
\* that already name a chart and a repo.
BootstrapRelArgsStale(p) ==
    /\ con[p].pc = "R"
    /\ LET k == Traced(con[p], "R")
           stale == [ZeroReleaseTypeArgs EXCEPT !.Chart = Some("stale"),
                                                !.RepositoryOpts.Repo = Some("stale")]
       IN  con' = [con EXCEPT ![p] =
                [k EXCEPT !.pc = "InitDefaults",
                          !.args.rel = IF @ = Nil THEN Some(stale) ELSE @]]
    /\ UNCHANGED <<ctx, dvars>>

\* relArgs := args.R(); if *relArgs == nil { *relArgs = &ReleaseTypeArgs{} }
BootstrapRelArgs(p) ==
    /\ con[p].pc = "R"
    /\ LET k == Traced(con[p], "R")
       IN  con' = [con EXCEPT ![p] =
                [k EXCEPT !.pc = "InitDefaults",
                          !.args.rel = IF @ = Nil THEN Some(ZeroReleaseTypeArgs) ELSE @]]
    /\ UNCHANGED <<ctx, dvars>>

\* ConstructInitDefaults with a bug: the two defaults are passed swapped.
ConstructInitDefaultsSwapped(p) ==
    /\ con[p].pc = "InitDefaults"
    /\ LET k == Traced(con[p], "InitDefaults")
           r == InitDefaults(k.args.rel[1], k.c.DefaultRepoURL, k.c.DefaultChartName,
                             StructPayload(k.args.fs))
       IN  con' = [con EXCEPT ![p] =
                [k EXCEPT !.pc = IF r.panicked THEN "panicked" ELSE "NewRelease",
                          !.args.rel = Some(r.args)]]
    /\ UNCHANGED <<ctx, dvars>>

\* ConstructInitDefaults with a bug: a panic of InitDefaults is recovered and
\* the call goes on with the values map as the failed decode left it.
ConstructInitDefaultsRecover(p) ==
    /\ con[p].pc = "InitDefaults"
    /\ LET k == Traced(con[p], "InitDefaults")
           r == InitDefaults(k.args.rel[1], k.c.DefaultChartName, k.c.DefaultRepoURL,
                             StructPayload(k.args.fs))
       IN  con' = [con EXCEPT ![p] =
                [k EXCEPT !.pc = "NewRelease", !.args.rel = Some(r.args)]]
    /\ UNCHANGED <<ctx, dvars>>

\* InitDefaults(*relArgs, c.DefaultChartName(), c.DefaultRepoURL(), args)
ConstructInitDefaults(p) ==
    /\ con[p].pc = "InitDefaults"
    /\ LET k == Traced(con[p], "InitDefaults")
           r == InitDefaults(k.args.rel[1], k.c.DefaultChartName, k.c.DefaultRepoURL,
                             StructPayload(k.args.fs))
       IN  con' = [con EXCEPT ![p] =
                [k EXCEPT !.pc = IF r.panicked THEN "panicked" ELSE "NewRelease",
                          !.args.rel = Some(r.args)]]
    /\ UNCHANGED <<ctx, dvars>>

\* NewRelease with a bug: the child's arguments are taken from whichever
\* call defaulted its release args last, as if relArgs were package-level.
NewReleaseShared(p) ==
    /\ con[p].pc = "NewRelease"
    /\ UNCHANGED dvars
    /\ \E ok \in BOOLEAN, o \in Calls :
          LET k == Traced(con[p], "NewRelease")
              nm == k.name \o <<"-helm">>
              src == IF con[o].args.rel # Nil THEN con[o].args.rel[1] ELSE k.args.rel[1]
          IN  /\ ctx' = Append(ctx, Request(p, "NewRelease", nm, "kubernetes:helm.sh/v3:Release",
                                            To(src), Some(k.c.id), ok))
              /\ con' = [con EXCEPT ![p] =
                    IF ok THEN [k EXCEPT !.pc = "SetOutputs",
                                         !.rel = Some([name |-> nm, Status |-> <<"status", nm>>])]
                    ELSE Return(k, Nil, Some("creating release"))]

\* NewRelease with a bug: the child is given the parent's name.
NewReleaseSameName(p) ==
    /\ con[p].pc = "NewRelease"
    /\ UNCHANGED dvars
    /\ \E ok \in BOOLEAN :
          LET k == Traced(con[p], "NewRelease")
              nm == k.name
          IN  /\ ctx' = Append(ctx, Request(p, "NewRelease", nm, "kubernetes:helm.sh/v3:Release",
                                            To(k.args.rel[1]), Some(k.c.id), ok))
              /\ con' = [con EXCEPT ![p] =
                    IF ok THEN [k EXCEPT !.pc = "SetOutputs",
                                         !.rel = Some([name |-> nm, Status |-> <<"status", nm>>])]
                    ELSE Return(k, Nil, Some("creating release"))]

\* NewRelease with a bug: a failed creation is tried once more.
NewReleaseRetry(p) ==
    /\ con[p].pc = "NewRelease"
    /\ UNCHANGED dvars
    /\ \E ok \in BOOLEAN :
          LET k == Traced(con[p], "NewRelease")
              nm == k.name \o <<"-helm">>
          IN  /\ ctx' = Append(ctx, Request(p, "NewRelease", nm, "kubernetes:helm.sh/v3:Release",
                                            To(k.args.rel[1]), Some(k.c.id), ok))
              /\ con' = [con EXCEPT ![p] =
                    IF ok THEN [k EXCEPT !.pc = "SetOutputs",
                                         !.rel = Some([name |-> nm, Status |-> <<"status", nm>>])]
                    ELSE IF Len(Requests(p, "NewRelease")) = 0 THEN k
                    ELSE Return(k, Nil, Some("creating release"))]

\* rel, err := helmv3.NewRelease(ctx, name+"-helm", To(*relArgs), pulumi.Parent(c))
NewRelease(p) ==
    /\ con[p].pc = "NewRelease"
    /\ UNCHANGED dvars
    /\ \E ok \in BOOLEAN :
          LET k == Traced(con[p], "NewRelease")
              nm == k.name \o <<"-helm">>
          IN  /\ ctx' = Append(ctx, Request(p, "NewRelease", nm, "kubernetes:helm.sh/v3:Release",
                                            To(k.args.rel[1]), Some(k.c.id), ok))
              /\ con' = [con EXCEPT ![p] =
                    IF ok THEN [k EXCEPT !.pc = "SetOutputs",
                                         !.rel = Some([name |-> nm, Status |-> <<"status", nm>>])]
                    ELSE Return(k, Nil, Some("creating release"))]

\* SetOutputs with a bug: the handle is given the status twice.
SetOutputsTwice(p) ==
    /\ con[p].pc = "SetOutputs"
    /\ LET k == Traced(con[p], "SetOutputs")
       IN  con' = [con EXCEPT ![p] =
                [k EXCEPT !.pc = "RegisterResourceOutputs",
                          !.c.outputs = Append(Append(@, k.rel[1].Status),
                                               k.rel[1].Status)]]
    /\ UNCHANGED <<ctx, dvars>>

\* c.SetOutputs(rel.Status)
SetOutputs(p) ==
    /\ con[p].pc = "SetOutputs"
    /\ LET k == Traced(con[p], "SetOutputs")
       IN  con' = [con EXCEPT ![p] =
                [k EXCEPT !.pc = "RegisterResourceOutputs",
                          !.c.outputs = Append(@, k.rel[1].Status)]]
    /\ UNCHANGED <<ctx, dvars>>

\* RegisterResourceOutputs with a bug: the child is registered under the
\* reserved input key and its status under the output key.
RegisterResourceOutputsWrongKey(p) ==
    /\ con[p].pc = "RegisterResourceOutputs"
    /\ UNCHANGED dvars
    /\ \E ok \in BOOLEAN :
          LET k == Traced(con[p], "RegisterResourceOutputs")
              outs == [x \in {FieldHelmStatusOutput, FieldHelmOptionsInput} |->
                          IF x = FieldHelmStatusOutput THEN k.rel[1].Status
                          ELSE k.rel[1]]
          IN  /\ ctx' = Append(ctx, Request(p, "RegisterResourceOutputs", k.name, k.c.Type,
                                            outs, Some(k.c.id), ok))
              /\ con' = [con EXCEPT ![p] =
                    IF ok THEN [k EXCEPT !.pc = "NewConstructResult"]
                    ELSE Return(k, Nil, Some("registering outputs"))]

\* RegisterResourceOutputs with a bug: a failed registration is not returned.
RegisterResourceOutputsIgnoreErr(p) ==
    /\ con[p].pc = "RegisterResourceOutputs"
    /\ UNCHANGED dvars
    /\ \E ok \in BOOLEAN :
          LET k == Traced(con[p], "RegisterResourceOutputs")
              outs == [x \in {FieldHelmStatusOutput} |-> k.rel[1]]
          IN  /\ ctx' = Append(ctx, Request(p, "RegisterResourceOutputs", k.name, k.c.Type,
                                            outs, Some(k.c.id), ok))
              /\ con' = [con EXCEPT ![p] = [k EXCEPT !.pc = "NewConstructResult"]]

\* ctx.RegisterResourceOutputs(c, pulumi.Map{FieldHelmStatusOutput: rel})
RegisterResourceOutputs(p) ==
    /\ con[p].pc = "RegisterResourceOutputs"
    /\ UNCHANGED dvars
    /\ \E ok \in BOOLEAN :
          LET k == Traced(con[p], "RegisterResourceOutputs")
              outs == [x \in {FieldHelmStatusOutput} |-> k.rel[1]]
          IN  /\ ctx' = Append(ctx, Request(p, "RegisterResourceOutputs", k.name, k.c.Type,
                                            outs, Some(k.c.id), ok))
              /\ con' = [con EXCEPT ![p] =
                    IF ok THEN [k EXCEPT !.pc = "NewConstructResult"]
                    ELSE Return(k, Nil, Some("registering outputs"))]

\* NewConstructResult with a bug: on a failure the call goes back, once, to
\* the output registration.
NewConstructResultRedo(p) ==
    /\ con[p].pc = "NewConstructResult"
    /\ \E ok \in BOOLEAN :
          LET k == Traced(con[p], "NewConstructResult")
          IN  con' = [con EXCEPT ![p] =
                   IF ok THEN Return(k, Some(k.c.id), Nil)
                   ELSE IF Len(Requests(p, "RegisterResourceOutputs")) < 2
                   THEN [k EXCEPT !.pc = "RegisterResourceOutputs"]
                   ELSE Return(k, Nil, Some("construct result"))]
    /\ UNCHANGED <<ctx, dvars>>

\* return provider.NewConstructResult(c)
NewConstructResult(p) ==
    /\ con[p].pc = "NewConstructResult"
    /\ \E ok \in BOOLEAN :
          LET k == Traced(con[p], "NewConstructResult")
          IN  con' = [con EXCEPT ![p] =
                   IF ok THEN Return(k, Some(k.c.id), Nil)
                   ELSE Return(k, Nil, Some("construct result"))]
    /\ UNCHANGED <<ctx, dvars>>

----------------------------------------------------------------------------
(* The Construct calls the model makes. *)

\* The Chart handle of call p, as NewMockChart builds it.
Handle(p) ==
    [id |-> p, Type |-> "test:index:Chart", DefaultChartName |-> "redis",
     DefaultRepoURL |-> "https://charts.example.org", outputs |-> <<>>]

TypeTokens == {"test:index:Chart", "foo:baz"}

\* The typed inputs: no, a tagged or an untagged value field, or one the
\* decoder rejects (a non-struct value tagged "squash"), followed by the
\* field R() points to, either exported and tagged "helmOptions" or, as in
\* MockArgs, unexported and untagged.
ValueFields ==
    {<<>>,
     <<[name |-> "F1", exported |-> TRUE, tag |-> "a", val |-> Scalar("new")]>>,
     <<[name |-> "F1", exported |-> TRUE, tag |-> "", val |-> Scalar("new")]>>}
    \cup {<<[name |-> "F1", exported |-> TRUE, tag |-> t, val |-> Scalar("new")]>> :
             t \in SquashTags}

ReleaseFields ==
    {[name |-> "HelmOptions", exported |-> TRUE, tag |-> FieldHelmOptionsInput,
      val |-> RelPtr],
     [name |-> "release", exported |-> FALSE, tag |-> "", val |-> RelPtr]}

\* The *ReleaseTypeArgs the typed input starts with.
InitialReleases ==
    {Nil}
    \cup {Some([ZeroReleaseTypeArgs EXCEPT !.Chart = c0, !.RepositoryOpts.Repo = r0,
                                           !.Values = v0]) :
            c0 \in {Nil, Some("X")}, r0 \in {Nil, Some("https://user.example.org")},
            v0 \in {NilMap, [isNil |-> FALSE,
                             m |-> [k \in {"a", "z"} |-> Scalar("old")]]}}
    \cup {Some([FilledReleaseTypeArgs EXCEPT !.Chart = c0]) : c0 \in {Nil, Some("X")}}

TypedInputs ==
    {[fs |-> vf \o <<rf>>, rel |-> r0] :
        vf \in ValueFields, rf \in ReleaseFields, r0 \in InitialReleases}

\* The raw input bags: any of the keys "a" and "helmOptions", each with a
\* value that converts or one that does not.
BagEntry(ok) ==
    [ok |-> ok, val |-> Scalar("raw"),
     rel |-> [ZeroReleaseTypeArgs EXCEPT !.Chart = Some("rawchart")]]

ConstructInputs ==
    UNION {[ks -> {BagEntry(TRUE), BagEntry(FALSE)}] :
              ks \in SUBSET {"a", FieldHelmOptionsInput}}

\* A call about to start, and a call that is never made.
NewCall(p, ty, ti, bag) ==
    [pc |-> "TypeCheck", typ |-> ty, name |-> <<"test-name">>, opts |-> "opts",
     c |-> Handle(p), args |-> ti, given |-> ti, inputs |-> bag, rel |-> Nil,
     ret |-> [result |-> Nil, err |-> Nil], trace |-> <<>>]

Parked(p) ==
    [NewCall(p, "test:index:Chart", [fs |-> <<>>, rel |-> Nil], <<>>)
        EXCEPT !.pc = "parked"]

\* The direct InitDefaults calls are not part of this specification.
NoDirectCalls ==
    /\ args = ZeroReleaseTypeArgs
    /\ chart = ""
    /\ repo = ""
    /\ values = NilPayload
    /\ before = ZeroReleaseTypeArgs
    /\ status = "idle"
    /\ calls = 0

\* The instance names: a name, and the name that is the first followed by
\* "-helm".  A name is the sequence of the parts it is concatenated from.
Names == {<<"test-name">>, <<"test-name", "-helm">>}

\* One Construct call, c1, with any type token, instance name, typed input
\* and input bag.
Init ==
    /\ NoDirectCalls
    /\ ctx = <<>>
    /\ \E ty \in TypeTokens, n \in Names, ti \in TypedInputs, bag \in ConstructInputs :
          con = [p \in Calls |->
                    IF p = "c1" THEN [NewCall(p, ty, ti, bag) EXCEPT !.name = n]
                    ELSE Parked(p)]

Next ==
    \/ \E p \in Calls : TypeCheck(p)
    \/ \E p \in Calls : CopyInputs(p)
    \/ \E p \in Calls : RegisterComponentResource(p)
    \/ \E p \in Calls : BootstrapRelArgs(p)
    \/ \E p \in Calls : ConstructInitDefaults(p)
    \/ \E p \in Calls : NewRelease(p)
    \/ \E p \in Calls : SetOutputs(p)
    \/ \E p \in Calls : RegisterResourceOutputs(p)
    \/ \E p \in Calls : NewConstructResult(p)

\* Two Construct calls, c1 and c2, each with its own handle, typed input and
\* input bag, their statements interleaved in any order.
\* The typed inputs: a release field that is exported starts nil, one that is
\* unexported (which the input bag cannot reach) starts with values.
ConcurrentTypedInputs ==
    {[fs |-> vf \o <<rf>>,
      rel |-> IF rf.exported THEN Nil
              ELSE Some([ZeroReleaseTypeArgs EXCEPT
                           !.Values = [isNil |-> FALSE,
                                       m |-> [k \in {"a", "z"} |-> Scalar("old")]]])] :
        vf \in ValueFields, rf \in ReleaseFields}

ConcurrentBags ==
    {<<>>,
     [k \in {"a", FieldHelmOptionsInput} |-> BagEntry(k = FieldHelmOptionsInput)],
     [k \in {"a", FieldHelmOptionsInput} |-> BagEntry(k = "a")]}

ConcurrentInit ==
    /\ NoDirectCalls
    /\ ctx = <<>>
    /\ \E ty \in [Calls -> TypeTokens], ti \in [Calls -> ConcurrentTypedInputs],
          bag \in [Calls -> ConcurrentBags] :
          con = [p \in Calls |-> NewCall(p, ty[p], ti[p], bag[p])]

ConcurrentSpec == ConcurrentInit /\ [][Next]_vars

Spec == Init /\ [][Next]_vars

\* Every external call returns: a call that has a statement to execute
\* eventually executes it.
LiveSpec == Spec /\ WF_vars(Next)

----------------------------------------------------------------------------
(* Claims about Construct, checked under Spec. *)

\* Call p has been made and is past its first statement.
Started(p) == con[p].pc \notin {"parked", "TypeCheck"}

\* Call p returned a result and no error.
CallSucceeded(p) ==
    /\ con[p].pc = "returned"
    /\ con[p].ret.result # Nil
    /\ con[p].ret.err = Nil

\* The requests of any kind call p made of the context.
AllRequests(p) == SelectSeq(ctx, LAMBDA r : r.by = p)

\* The typed input of call p was passed with chart and repo unset.
ChartAndRepoUnset(p) ==
    \/ con[p].given.rel = Nil
    \/ /\ con[p].given.rel # Nil
       /\ con[p].given.rel[1].Chart = Nil
       /\ con[p].given.rel[1].RepositoryOpts.Repo = Nil

\* The values map the typed input of call p was passed with.
GivenValues(p) ==
    IF con[p].given.rel = Nil THEN EmptyMap ELSE con[p].given.rel[1].Values.m

\* C9: a call whose type token differs from the handle's Type() returns an
\* error and no result, and at no time hydrates the typed input, registers
\* the parent, creates a child, calls SetOutputs or registers outputs.
C9_TypeCheckShortCircuit ==
    \A p \in Calls :
        (Started(p) /\ con[p].typ # con[p].c.Type) =>
            /\ con[p].pc = "returned"
            /\ con[p].ret = [result |-> Nil, err |-> Some("unknown resource type")]
            /\ con[p].trace = <<"TypeCheck">>
            /\ con[p].args = con[p].given
            /\ AllRequests(p) = <<>>
            /\ con[p].c.outputs = <<>>
            /\ con[p].rel = Nil

C9_Witness ==
    /\ con["c1"].typ = "foo:baz" /\ con["c1"].c.Type = "test:index:Chart"
    /\ con["c1"].pc = "returned"
    /\ con["c1"].ret.err = Some("unknown resource type")
    /\ con["c1"].inputs # <<>>
    /\ ctx = <<>>

\* C10 as claimed: a call that succeeds with an empty input bag and a typed
\* input whose chart and repo are unset creates exactly one child, whose
\* arguments carry the handle's default chart and repo and, as values, the
\* typed input's tagged fields minus the reserved key.
C10_Original ==
    \A p \in Calls :
        (CallSucceeded(p) /\ con[p].inputs = <<>> /\ ChartAndRepoUnset(p)) =>
            /\ Len(Requests(p, "NewRelease")) = 1
            /\ LET a == Requests(p, "NewRelease")[1].payload
                   ti == StructPayload(con[p].given.fs)
               IN  /\ a.Chart = Some(con[p].c.DefaultChartName)
                   /\ a.RepositoryOpts.Repo = Some(con[p].c.DefaultRepoURL)
                   /\ DOMAIN a.Values.m = CanonicalNames(ti) \ {FieldHelmOptionsInput}
                   /\ \A i \in DOMAIN ti.fs :
                         (Tagged(ti.fs[i]) /\ ti.fs[i].tag # FieldHelmOptionsInput) =>
                             a.Values.m[ti.fs[i].tag] = ti.fs[i].val

\* C10 as amended: such a call creates exactly one child, parented to the
\* handle, whose arguments carry the handle's default chart and repo and, as
\* values, the values the typed input's release args were passed with,
\* overlaid with the typed input's decoded fields (each exported field not
\* tagged "-", under its tag or, untagged, its Go name), minus the reserved
\* key.
C10_EndToEndDefaulting ==
    \A p \in Calls :
        (CallSucceeded(p) /\ con[p].inputs = <<>> /\ ChartAndRepoUnset(p)) =>
            /\ Len(Requests(p, "NewRelease")) = 1
            /\ LET q == Requests(p, "NewRelease")[1]
                   a == q.payload
                   ti == StructPayload(con[p].given.fs)
                   old == GivenValues(p)
               IN  /\ q.ok
                   /\ q.parent = Some(con[p].c.id)
                   /\ a.Chart = Some(con[p].c.DefaultChartName)
                   /\ a.RepositoryOpts.Repo = Some(con[p].c.DefaultRepoURL)
                   /\ a.Values.m =
                        [k \in ((DOMAIN old) \cup PayloadKeys(ti)) \ {FieldHelmOptionsInput} |->
                            IF k \in PayloadKeys(ti) THEN PayloadValue(ti, k) ELSE old[k]]

C10_Witness ==
    /\ CallSucceeded("c1") /\ con["c1"].inputs = <<>>
    /\ con["c1"].given.rel = Nil
    /\ Len(con["c1"].given.fs) = 2
    /\ con["c1"].given.fs[1].tag = "a"
    /\ con["c1"].given.fs[2].tag = FieldHelmOptionsInput
    /\ Len(Requests("c1", "NewRelease")) = 1
    /\ Requests("c1", "NewRelease")[1].payload.Chart = Some("redis")
    /\ Requests("c1", "NewRelease")[1].payload.RepositoryOpts.Repo
          = Some("https://charts.example.org")
    /\ Requests("c1", "NewRelease")[1].payload.Values.m = [a |-> Scalar("new")]

\* Copying the input bag of call p onto the typed input it was passed fails.
HydrationFails(p) ==
    \E order \in Orders(DOMAIN con[p].inputs) :
        CopyTo(con[p].given, con[p].inputs, order).err

\* The operations call p asked of the context, in order.
Ops(p) == [i \in DOMAIN AllRequests(p) |-> AllRequests(p)[i].op]

\* Call p made a request for operation op that failed.
RequestFailed(p, op) ==
    \E i \in DOMAIN Requests(p, op) : ~Requests(p, op)[i].ok

\* C11: a call that has returned holds either the handle as result and no
\* error, or no result and an error; it holds a result only if the type
\* token matched, the copy of the input bag succeeded, and the parent
\* registration, the child creation and the output registration were each
\* requested and succeeded.
C11_ResultErrorExclusive ==
    \A p \in Calls :
        con[p].pc = "returned" =>
            /\ \/ con[p].ret.result = Some(con[p].c.id) /\ con[p].ret.err = Nil
               \/ con[p].ret.result = Nil /\ con[p].ret.err # Nil
            /\ con[p].ret.result # Nil =>
                  /\ con[p].typ = con[p].c.Type
                  /\ ~HydrationFails(p)
                  /\ Ops(p) = <<"RegisterComponentResource", "NewRelease",
                                "RegisterResourceOutputs">>
                  /\ \A i \in DOMAIN AllRequests(p) : AllRequests(p)[i].ok

C11_Witness ==
    /\ con["c1"].pc = "returned"
    /\ con["c1"].ret = [result |-> Some("c1"), err |-> Nil]
    /\ con["c1"].inputs # <<>>
    /\ Len(AllRequests("c1")) = 3

\* C12: a call whose type token matches and whose input bag cannot be copied
\* onto the typed input returns the "setting args" error and no result, with
\* nothing run after the copy: no request is made of the context, no
\* defaulting, no child, no SetOutputs.
C12_HydrationFailure ==
    \A p \in Calls :
        (/\ con[p].pc \notin {"parked", "TypeCheck", "CopyTo"}
         /\ con[p].typ = con[p].c.Type
         /\ HydrationFails(p)) =>
            /\ con[p].pc = "returned"
            /\ con[p].ret = [result |-> Nil, err |-> Some("setting args")]
            /\ con[p].trace = <<"TypeCheck", "CopyTo">>
            /\ AllRequests(p) = <<>>
            /\ con[p].c.outputs = <<>>
            /\ con[p].rel = Nil

C12_Witness ==
    /\ con["c1"].pc = "returned"
    /\ con["c1"].ret.err = Some("setting args")
    /\ \E k \in DOMAIN con["c1"].inputs : ~con["c1"].inputs[k].ok
    /\ ctx = <<>>

\* C13: after a call has returned the "setting args" error, the typed input
\* holds exactly what it was passed with.
C13_HydrationNotPartial ==
    \A p \in Calls :
        (con[p].pc = "returned" /\ con[p].ret.err = Some("setting args")) =>
            con[p].args = con[p].given

\* C14: a call whose parent registration failed returns that error and no
\* result, having made no other request of the context and run nothing after
\* the registration: no defaulting, no child, no SetOutputs, no outputs.
C14_ParentRegistrationFailure ==
    \A p \in Calls :
        RequestFailed(p, "RegisterComponentResource") =>
            /\ con[p].pc = "returned"
            /\ con[p].ret = [result |-> Nil, err |-> Some("registering component")]
            /\ con[p].trace = <<"TypeCheck", "CopyTo", "RegisterComponentResource">>
            /\ Ops(p) = <<"RegisterComponentResource">>
            /\ con[p].c.outputs = <<>>
            /\ con[p].rel = Nil

C14_Witness ==
    /\ con["c1"].pc = "returned"
    /\ con["c1"].ret.err = Some("registering component")
    /\ Len(ctx) = 1
    /\ ~ctx[1].ok
    /\ con["c1"].given.rel = Nil
    /\ con["c1"].args.rel = Nil

\* C15: a call whose child creation failed returns that error and no result;
\* the creation was requested once, the only other request is the parent
\* registration, which succeeded and is followed by no request undoing it,
\* and neither SetOutputs nor the output registration was run.
C15_ChildCreationFailure ==
    \A p \in Calls :
        RequestFailed(p, "NewRelease") =>
            /\ con[p].pc = "returned"
            /\ con[p].ret = [result |-> Nil, err |-> Some("creating release")]
            /\ Ops(p) = <<"RegisterComponentResource", "NewRelease">>
            /\ AllRequests(p)[1].ok
            /\ con[p].trace = <<"TypeCheck", "CopyTo", "RegisterComponentResource",
                                "R", "InitDefaults", "NewRelease">>
            /\ con[p].c.outputs = <<>>
            /\ con[p].rel = Nil

C15_Witness ==
    /\ con["c1"].pc = "returned"
    /\ con["c1"].ret.err = Some("creating release")
    /\ Len(ctx) = 2
    /\ ctx[1].op = "RegisterComponentResource" /\ ctx[1].ok
    /\ ctx[2].op = "NewRelease" /\ ~ctx[2].ok

\* The typed input of call p is a payload the decoder rejects.
Undecodable(p) == Decode(StructPayload(con[p].args.fs), MakeMap).err

\* C16: once a call has run InitDefaults on a typed input that cannot be
\* decoded, the call has panicked: it holds no return value, and it has
\* created no child, called no SetOutputs and registered no outputs.
C16_DecodeFailureFatal ==
    \A p \in Calls :
        (/\ con[p].pc \notin {"parked", "TypeCheck", "CopyTo",
                              "RegisterComponentResource", "R", "InitDefaults"}
         /\ "InitDefaults" \in {con[p].trace[i] : i \in DOMAIN con[p].trace}
         /\ Undecodable(p)) =>
            /\ con[p].pc = "panicked"
            /\ con[p].ret = [result |-> Nil, err |-> Nil]
            /\ Ops(p) = <<"RegisterComponentResource">>
            /\ con[p].trace = <<"TypeCheck", "CopyTo", "RegisterComponentResource",
                                "R", "InitDefaults">>
            /\ con[p].c.outputs = <<>>
            /\ con[p].rel = Nil

C16_Witness ==
    /\ con["c1"].pc = "panicked"
    /\ Undecodable("c1")
    /\ Len(ctx) = 1 /\ ctx[1].ok
    /\ con["c1"].args.rel # Nil
    /\ con["c1"].args.rel[1].Chart # Nil

\* How many times statement st was executed by call p.
Executions(p, st) == Cardinality({i \in DOMAIN con[p].trace : con[p].trace[i] = st})

\* C17: no call registers its handle, creates a child or calls SetOutputs
\* more than once; a call that returned a result registered its handle once,
\* under the type token, name and options it was passed, created one child
\* with the handle as parent, and called SetOutputs once, with that child's
\* status.
C17_ExactlyOnce ==
    \A p \in Calls :
        /\ Len(Requests(p, "RegisterComponentResource")) <= 1
        /\ Len(Requests(p, "NewRelease")) <= 1
        /\ Executions(p, "SetOutputs") <= 1
        /\ Len(con[p].c.outputs) <= 1
        /\ CallSucceeded(p) =>
              /\ Len(Requests(p, "RegisterComponentResource")) = 1
              /\ LET q == Requests(p, "RegisterComponentResource")[1]
                 IN  /\ q.ok
                     /\ q.typ = con[p].typ
                     /\ q.name = con[p].name
                     /\ q.payload = con[p].opts
              /\ Len(Requests(p, "NewRelease")) = 1
              /\ Requests(p, "NewRelease")[1].ok
              /\ Requests(p, "NewRelease")[1].parent = Some(con[p].c.id)
              /\ Executions(p, "SetOutputs") = 1
              /\ con[p].c.outputs = <<con[p].rel[1].Status>>

C17_Witness ==
    /\ CallSucceeded("c1")
    /\ Len(Requests("c1", "RegisterComponentResource")) = 1
    /\ Len(Requests("c1", "NewRelease")) = 1
    /\ Requests("c1", "NewRelease")[1].parent = Some("c1")
    /\ Len(con["c1"].c.outputs) = 1

\* C18: a call that returned a result registered outputs once, on its
\* handle, as a map with the single key "status" whose entry is the child
\* Release the same call created.
C18_OutputRegistration ==
    \A p \in Calls :
        CallSucceeded(p) =>
            /\ Len(Requests(p, "RegisterResourceOutputs")) = 1
            /\ LET q == Requests(p, "RegisterResourceOutputs")[1]
                   child == Requests(p, "NewRelease")[1]
               IN  /\ q.ok
                   /\ q.parent = Some(con[p].c.id)
                   /\ DOMAIN q.payload = {"status"}
                   /\ FieldHelmStatusOutput = "status"
                   /\ q.payload["status"] = con[p].rel[1]
                   /\ q.payload["status"].name = child.name
                   /\ child.ok /\ child.by = p

C18_Witness ==
    /\ CallSucceeded("c1")
    /\ Len(Requests("c1", "RegisterResourceOutputs")) = 1
    /\ DOMAIN Requests("c1", "RegisterResourceOutputs")[1].payload = {"status"}
    /\ Requests("c1", "RegisterResourceOutputs")[1].payload["status"].name
          = <<"test-name", "-helm">>

\* Construct (base.go lines 898-939) run alone, as a function of the call k
\* as it was made, the order in which the input bag is ranged over, and the
\* answers ok.reg, ok.rel, ok.out, ok.res the context gives to the parent
\* registration, the child creation, the output registration and
\* NewConstructResult: how the call ends, what it returns, the typed input
\* and the handle's outputs afterwards, and the requests it made.
Construct(k, order, ok) ==
    LET id == k.c.id
        End(pc, res, err, a, reqs, outs) ==
            [pc |-> pc, ret |-> [result |-> res, err |-> err], args |-> a,
             reqs |-> reqs, outputs |-> outs]
        r == CopyTo(k.args, k.inputs, order)
        q1 == Request(id, "RegisterComponentResource", k.name, k.typ, k.opts, Nil, ok.reg)
        rel0 == IF r.args.rel = Nil THEN ZeroReleaseTypeArgs ELSE r.args.rel[1]
        d == InitDefaults(rel0, k.c.DefaultChartName, k.c.DefaultRepoURL,
                          StructPayload(r.args.fs))
        a2 == [r.args EXCEPT !.rel = Some(d.args)]
        nm == k.name \o <<"-helm">>
        q2 == Request(id, "NewRelease", nm, "kubernetes:helm.sh/v3:Release",
                      To(d.args), Some(id), ok.rel)
        rel == [name |-> nm, Status |-> <<"status", nm>>]
        q3 == Request(id, "RegisterResourceOutputs", k.name, k.c.Type,
                      [x \in {FieldHelmStatusOutput} |-> rel], Some(id), ok.out)
    IN  IF k.typ # k.c.Type
        THEN End("returned", Nil, Some("unknown resource type"), k.args, <<>>, <<>>)
        ELSE IF r.err
        THEN End("returned", Nil, Some("setting args"), r.args, <<>>, <<>>)
        ELSE IF ~ok.reg
        THEN End("returned", Nil, Some("registering component"), r.args, <<q1>>, <<>>)
        ELSE IF d.panicked
        THEN End("panicked", Nil, Nil, a2, <<q1>>, <<>>)
        ELSE IF ~ok.rel
        THEN End("returned", Nil, Some("creating release"), a2, <<q1, q2>>, <<>>)
        ELSE IF ~ok.out
        THEN End("returned", Nil, Some("registering outputs"), a2, <<q1, q2, q3>>,
                 <<rel.Status>>)
        ELSE IF ~ok.res
        THEN End("returned", Nil, Some("construct result"), a2, <<q1, q2, q3>>,
                 <<rel.Status>>)
        ELSE End("returned", Some(id), Nil, a2, <<q1, q2, q3>>, <<rel.Status>>)

\* Call p is over.
Over(p) == con[p].pc \in {"returned", "panicked"}

\* What call p ended with is what Construct yields run alone on what p was
\* passed, for some order of the bag and some answers of the context.
AsAlone(p) ==
    \E order \in Orders(DOMAIN con[p].inputs),
       ok \in [{"reg", "rel", "out", "res"} -> BOOLEAN] :
        LET alone == Construct([con[p] EXCEPT !.args = con[p].given], order, ok)
        IN  /\ con[p].pc = alone.pc
            /\ con[p].ret = alone.ret
            /\ con[p].args = alone.args
            /\ con[p].c.outputs = alone.outputs
            /\ AllRequests(p) = alone.reqs

\* A step changes the typed input, handle and values map of one call only.
OneCallSteps ==
    \A p \in Calls :
        con'[p] # con[p] => \A q \in Calls \ {p} : con'[q] = con[q]

\* C19: with the statements of two calls interleaved in any order, a call
\* that is over ended as Construct ends run alone on the same arguments
\* (same return value, same requests and so same child arguments, same typed
\* input and outputs afterwards), and every step leaves the typed input,
\* handle and values map of the other call as they were.
C19_NoSharedState ==
    /\ [](\A p \in Calls : Over(p) => AsAlone(p))
    /\ [][OneCallSteps]_vars

C19_Witness ==
    /\ CallSucceeded("c1") /\ CallSucceeded("c2")
    /\ Len(ctx) = 6
    /\ ctx[1].by = "c1" /\ ctx[2].by = "c2" /\ ctx[3].by = "c2" /\ ctx[4].by = "c1"
    /\ Requests("c1", "NewRelease")[1].payload # Requests("c2", "NewRelease")[1].payload
    /\ con["c1"].args # con["c2"].args

\* C20, checked under DefaultsSpec: when args.Chart was the empty string
\* before a call, it is the default chart name passed in after the call.
C20_EmptyStringUnset ==
    (calls > 0 /\ before.Chart = Some("")) => args.Chart = Some(chart)

\* The entries of a values map other than the reserved key.
WithoutReserved(m) ==
    [k \in (DOMAIN m) \ {FieldHelmOptionsInput} |-> m[k]]

\* C21 as claimed, checked under DefaultsSpec: after a call that returns on a
\* struct payload none of whose fields carries a canonical-name tag,
\* args.Values holds what it held before, less the reserved key.
C21_Original ==
    (/\ Returned /\ values.kind = "struct"
     /\ \A i \in DOMAIN values.fs : ~Tagged(values.fs[i])) =>
        args.Values.m = WithoutReserved(before.Values.m)

\* C21 as amended: after a call that returns on a struct payload none of
\* whose fields the decoder reads (each is unexported or tagged "-"),
\* args.Values holds what it held before, less the reserved key: no key is
\* added and no other entry is changed.
C21_NoOpMerge ==
    (/\ Returned /\ values.kind = "struct"
     /\ \A i \in DOMAIN values.fs : ~Visible(values.fs[i])) =>
        /\ args.Values.m = WithoutReserved(before.Values.m)
        /\ ~args.Values.isNil

C21_Witness ==
    /\ Returned /\ calls = 1
    /\ values.kind = "struct" /\ Len(values.fs) = 2
    /\ ~values.fs[1].exported /\ values.fs[1].tag = "a"
    /\ values.fs[2].tag = "-"
    /\ DOMAIN before.Values.m = {"a", "z", FieldHelmOptionsInput}
    /\ before.Values.m["a"] = SubMapOld
    /\ args.Values.m = [a |-> SubMapOld, z |-> Scalar("old")]

\* s is an initial part of t.
IsPrefix(s, t) == Len(s) <= Len(t) /\ \A i \in DOMAIN s : s[i] = t[i]

\* Call p has executed statement st.
Ran(p, st) == Executions(p, st) > 0

\* Call p made a request for operation op that succeeded.
RequestSucceeded(p, op) ==
    \E i \in DOMAIN Requests(p, op) : Requests(p, op)[i].ok

\* C22: the statements a call has executed are an initial part of the
\* pipeline (type check, hydration, parent registration, nested-args
\* bootstrap and defaulting, child creation, SetOutputs, output registration,
\* result), and a statement has been executed only if the one before it
\* succeeded: the child creation only after a successful parent registration
\* and a defaulting that returned, SetOutputs only after a successful child
\* creation.
C22_PipelineOrder ==
    \A p \in Calls :
        /\ IsPrefix(con[p].trace, Pipeline)
        /\ Ran(p, "CopyTo") => con[p].typ = con[p].c.Type
        /\ Ran(p, "RegisterComponentResource") => ~HydrationFails(p)
        /\ Ran(p, "R") => RequestSucceeded(p, "RegisterComponentResource")
        /\ Ran(p, "InitDefaults") => (Ran(p, "R") /\ con[p].args.rel # Nil)
        /\ Ran(p, "NewRelease") =>
              /\ Ran(p, "InitDefaults") /\ ~Undecodable(p)
              /\ RequestSucceeded(p, "RegisterComponentResource")
              /\ ctx[CHOOSE i \in DOMAIN ctx : ctx[i].by = p].op
                    = "RegisterComponentResource"
        /\ Ran(p, "SetOutputs") =>
              (RequestSucceeded(p, "NewRelease") /\ con[p].rel # Nil)
        /\ Ran(p, "RegisterResourceOutputs") => Ran(p, "SetOutputs")
        /\ Ran(p, "NewConstructResult") =>
              RequestSucceeded(p, "RegisterResourceOutputs")

C22_Witness ==
    /\ con["c1"].trace = Pipeline
    /\ con["c1"].pc = "returned"
    /\ con["c1"].ret.err = Some("construct result")
    /\ Ops("c1") = <<"RegisterComponentResource", "NewRelease",
                     "RegisterResourceOutputs">>

\* The nested release-args pointer of call p is nil when R() is reached: the
\* typed input was passed with none and the input bag has set none.
NilAtBootstrap(p) ==
    /\ Ran(p, "R")
    /\ \A order \in Orders(DOMAIN con[p].inputs) :
          CopyTo(con[p].given, con[p].inputs, order).args.rel = Nil

\* C23: in a call that reached R() with a nil nested pointer, the typed
\* input holds a zero-valued ReleaseTypeArgs when defaulting starts, holds
\* release args at every later point, has the handle's default chart and
\* repo once defaulting has run, and any child is created with them.
C23_NestedArgsBootstrap ==
    \A p \in Calls :
        NilAtBootstrap(p) =>
            /\ con[p].args.rel # Nil
            /\ con[p].pc = "InitDefaults" => con[p].args.rel = Some(ZeroReleaseTypeArgs)
            /\ Ran(p, "InitDefaults") =>
                  /\ con[p].args.rel[1].Chart = Some(con[p].c.DefaultChartName)
                  /\ con[p].args.rel[1].RepositoryOpts.Repo = Some(con[p].c.DefaultRepoURL)
            /\ \A i \in DOMAIN Requests(p, "NewRelease") :
                  LET a == Requests(p, "NewRelease")[i].payload
                  IN  /\ a.Chart = Some(con[p].c.DefaultChartName)
                      /\ a.RepositoryOpts.Repo = Some(con[p].c.DefaultRepoURL)

C23_Witness ==
    /\ NilAtBootstrap("c1")
    /\ con["c1"].given.rel = Nil
    /\ con["c1"].inputs # <<>>
    /\ con["c1"].pc = "SetOutputs"
    /\ Len(Requests("c1", "NewRelease")) = 1
    /\ Requests("c1", "NewRelease")[1].payload.Chart = Some("redis")

\* C24, checked under DefaultsSpec: after every call that returns,
\* args.Values is a non-nil map.
C24_ValuesInitialised ==
    Returned => ~args.Values.isNil

\* C25, checked under DefaultsSpec: after a call that returns, a key that
\* held a map before the call and that the payload produces with a map holds
\* exactly the payload's map: the two are not merged, and no sub-key of the
\* old map that the payload's map lacks survives.
C25_FlatOverride ==
    Returned =>
        \A k \in (PayloadKeys(values) \cap DOMAIN before.Values.m)
                    \ {FieldHelmOptionsInput} :
            (before.Values.m[k].kind = "map" /\ PayloadValue(values, k).kind = "map") =>
                /\ k \in DOMAIN args.Values.m
                /\ args.Values.m[k] = PayloadValue(values, k)
                /\ \A y \in DOMAIN before.Values.m[k].m :
                      y \notin DOMAIN PayloadValue(values, k).m =>
                          y \notin DOMAIN args.Values.m[k].m

C25_Witness ==
    /\ Returned /\ calls = 1
    /\ values.kind = "struct" /\ Len(values.fs) = 1
    /\ values.fs[1].tag = "a" /\ values.fs[1].val = SubStruct
    /\ "a" \in DOMAIN before.Values.m
    /\ before.Values.m["a"] = SubMapOld
    /\ args.Values.m["a"] = SubMapNew
    /\ "keep" \in DOMAIN before.Values.m["a"].m
    /\ "keep" \notin DOMAIN args.Values.m["a"].m

\* C26, checked under Spec: every child is created with an empty
\* ValueYamlFiles, as is the projection of the release args a call holds,
\* whatever their ValueYamlFiles contains.
C26_ValueYamlFilesDropped ==
    \A p \in Calls :
        /\ con[p].args.rel # Nil => To(con[p].args.rel[1]).ValueYamlFiles = <<>>
        /\ \A i \in DOMAIN Requests(p, "NewRelease") :
              Requests(p, "NewRelease")[i].payload.ValueYamlFiles = <<>>

C26_Witness ==
    /\ CallSucceeded("c1")
    /\ con["c1"].args.rel[1].ValueYamlFiles = <<"values.yaml", "more.yaml">>
    /\ Len(Requests("c1", "NewRelease")) = 1
    /\ Requests("c1", "NewRelease")[1].payload.ValueYamlFiles = <<>>
    /\ Requests("c1", "NewRelease")[1].payload.Description = Some("description")

\* The value of field f of release args or of their projection, a values map
\* being its entries.
FieldValue(a, f) == IF f = "Values" THEN a[f].m ELSE a[f]

\* C27, checked under Spec: the arguments a child was created with carry
\* every field of the release args the call holds, with the same value.
C27_ProjectionComplete ==
    \A p \in Calls :
        \A i \in DOMAIN Requests(p, "NewRelease") :
            LET a == con[p].args.rel[1]
                out == Requests(p, "NewRelease")[i].payload
            IN  \A f \in DOMAIN a :
                    /\ f \in DOMAIN out
                    /\ FieldValue(out, f) = FieldValue(a, f)

\* C28, checked under DefaultsSpec: after a call, every field of args other
\* than Chart, RepositoryOpts and Values, and every field of RepositoryOpts
\* other than Repo, has the value it had before the call.
C28_Frame ==
    calls > 0 =>
        /\ \A f \in (DOMAIN args) \ {"Chart", "RepositoryOpts", "Values"} :
              args[f] = before[f]
        /\ \A g \in (DOMAIN args.RepositoryOpts) \ {"Repo"} :
              args.RepositoryOpts[g] = before.RepositoryOpts[g]

C28_Witness ==
    /\ Returned /\ calls = 1
    /\ before.Chart = Nil /\ args.Chart = Some(chart)
    /\ before.RepositoryOpts.Repo = Nil /\ args.RepositoryOpts.Repo = Some(repo)
    /\ before.Values.isNil /\ DOMAIN args.Values.m = {"a"}
    /\ before.RepositoryOpts.Username = Some("username")
    /\ args.RepositoryOpts.Username = Some("username")
    /\ args.ValueYamlFiles = <<"values.yaml", "more.yaml">>
    /\ args.Status = Some("deployed")

\* C29, checked under Spec: whatever else a call is passed, the child it
\* creates for instance name n is named n followed by "-helm", the parent
\* is registered as n, and the two names differ.
C29_ChildNaming ==
    \A p \in Calls :
        \A i \in DOMAIN Requests(p, "NewRelease") :
            LET child == Requests(p, "NewRelease")[i]
                parent == Requests(p, "RegisterComponentResource")[1]
            IN  /\ child.name = con[p].name \o <<"-helm">>
                /\ parent.name = con[p].name
                /\ child.name # parent.name
                /\ con[p].rel # Nil => con[p].rel[1].name = child.name

C29_Witness ==
    /\ con["c1"].name = <<"test-name", "-helm">>
    /\ con["c1"].pc = "RegisterResourceOutputs"
    /\ Requests("c1", "RegisterComponentResource")[1].name = <<"test-name", "-helm">>
    /\ Requests("c1", "NewRelease")[1].name = <<"test-name", "-helm", "-helm">>
    /\ Requests("c1", "NewRelease")[1].ok

\* The position of a program counter in Construct; both ways of ending come
\* last.
Rank(pc) ==
    CASE pc = "parked" -> 0
      [] pc = "TypeCheck" -> 1
      [] pc = "CopyTo" -> 2
      [] pc = "RegisterComponentResource" -> 3
      [] pc = "R" -> 4
      [] pc = "InitDefaults" -> 5
      [] pc = "NewRelease" -> 6
      [] pc = "SetOutputs" -> 7
      [] pc = "RegisterResourceOutputs" -> 8
      [] pc = "NewConstructResult" -> 9
      [] OTHER -> 10

\* The three ways a call ends.
ReturnedResult(p) ==
    con[p].pc = "returned" /\ con[p].ret.result # Nil /\ con[p].ret.err = Nil

ReturnedError(p) ==
    con[p].pc = "returned" /\ con[p].ret.result = Nil /\ con[p].ret.err # Nil

Aborted(p) ==
    con[p].pc = "panicked" /\ con[p].ret = [result |-> Nil, err |-> Nil]

\* A step of call p moves it forward in Construct, and a call that is over
\* takes no step.
MovesForward ==
    \A p \in Calls :
        con'[p] # con[p] =>
            (~Over(p) /\ Rank(con'[p].pc) > Rank(con[p].pc))

\* C30, checked under LiveSpec: a call that has been made is eventually
\* over; a call that is over has returned a result, returned an error or
\* aborted, and only one of the three; and every step of a call takes it to
\* a later statement, never to the same or an earlier one.
C30_Termination ==
    /\ \A p \in Calls : (con[p].pc # "parked") ~> Over(p)
    /\ [](\A p \in Calls :
             Over(p) =>
                 /\ ReturnedResult(p) \/ ReturnedError(p) \/ Aborted(p)
                 /\ ~(ReturnedResult(p) /\ ReturnedError(p))
                 /\ ~(ReturnedResult(p) /\ Aborted(p))
                 /\ ~(ReturnedError(p) /\ Aborted(p)))
    /\ [][MovesForward]_vars

C30_Witness ==
    /\ Aborted("c1")
    /\ con["c1"].name = <<"test-name", "-helm">>
    /\ con["c1"].trace = <<"TypeCheck", "CopyTo", "RegisterComponentResource",
                           "R", "InitDefaults">>
    /\ con["c2"].pc = "parked"

====
